---- MODULE Spec2Model ----
(***************************************************************************)
(* A model of odooconn.OdooConn: a client object that authenticates once   *)
(* at construction and then relays every operation as one execute_kw call  *)
(* on the remote object endpoint.  The remote server is the environment:   *)
(* it answers every call either with a result or with a Fault.             *)
(***************************************************************************)
EXTENDS Integers, Sequences, FiniteSets, TLC

VARIABLES
    pc,          \* "new" | "ready" | "failed" (the constructor raised)
    config,      \* the config mapping handed to __init__
    authResult,  \* what common.authenticate answered
    database,    \* self.database
    username,    \* self.username
    password,    \* self.password
    uid,         \* self.uid
    authCalls,   \* number of common.authenticate calls issued
    store,       \* the remote server's records, per model and identifier
    op,          \* the last operation called on the connection
    inp,         \* its arguments
    calls,       \* the models.execute_kw calls it issued
    resp,        \* what the remote server answered
    logs,        \* the logger.error entries it emitted
    outcome      \* how it ended: a returned value or a raised exception

vars == <<pc, config, authResult, database, username, password, uid,
          authCalls, store, op, inp, calls, resp, logs, outcome>>

conn == <<pc, config, authResult, database, username, password, uid, authCalls>>

-----------------------------------------------------------------------------
(* Bounds *)

MaxId == 2        \* record identifiers are 1..MaxId
MaxLimit == 1     \* limits and offsets are 0..MaxLimit

-----------------------------------------------------------------------------
(* Python values, tagged by type so that values of different types compare *)

PyNone == [t |-> "None", v |-> "None"]
PyBool(b) == [t |-> "bool", v |-> b]
PyInt(n) == [t |-> "int", v |-> n]
PyStr(s) == [t |-> "str", v |-> s]
PyList(q) == [t |-> "list", v |-> q]
PyDict(m) == [t |-> "dict", v |-> m]

\* the seventh positional parameter of execute_kw when it is not passed
NoKw == [t |-> "absent", v |-> "absent"]

\* Python truth value of x, as "if x" / "not x" evaluate it
Truthy(x) ==
    CASE x.t = "None" -> FALSE
      [] x.t = "bool" -> x.v
      [] x.t = "int" -> x.v # 0
      [] x.t = "str" -> x.v # ""
      [] x.t = "list" -> x.v # <<>>
      [] x.t = "dict" -> DOMAIN x.v # {}
      [] OTHER -> TRUE

\* str(x), the text "{}" is replaced by in str.format
Str(x) == [t |-> "text", v |-> x]

\* xmlrpc.client.Fault carrying a fault string
Fault(s) == [t |-> "Fault", v |-> s]

IndexError == [t |-> "IndexError", v |-> "Replacement index out of range"]

-----------------------------------------------------------------------------
(* Inputs the callers draw from *)

Ids == 1..MaxId
Models == {"res.partner", "res.userz"}
Values == {PyDict([name |-> PyStr("A")]), PyDict([name |-> PyStr("B")])}
Headers == {PyList(<<PyStr("name")>>)}
Rows == {PyList(<<PyList(<<PyStr("A")>>), PyList(<<PyStr("B")>>)>>)}
Domains == {PyList(<<PyList(<<>>)>>),
            PyList(<<PyList(<<PyList(<<PyStr("name"), PyStr("="), PyStr("A")>>)>>)>>)}
Attributes == {PyList(<<>>), PyNone, PyList(<<PyStr("string"), PyStr("type")>>)}
Fields == {PyList(<<>>), PyList(<<PyStr("name")>>)}
Limits == 0..MaxLimit
\* the offset and limit values search_read is called with
Offsets == {0, MaxLimit}

IdSeqs == {<<>>} \cup {<<i>> : i \in Ids} \cup {q \in Ids \X Ids : q[1] # q[2]}
IdLists == {PyList([k \in 1..Len(q) |-> PyInt(q[k])]) : q \in IdSeqs}

Configs == [database : {"prod", "nodb"}, username : {"admin"},
            password : {"secret", "wrong"}]

-----------------------------------------------------------------------------
(* The remote server (environment).  common.authenticate answers a user    *)
(* identifier for valid credentials, False for invalid ones, and faults on *)
(* an unknown database.  object.execute_kw answers a call with a result or *)
(* with a Fault; it applies create, write and unlink to the identifiers    *)
(* the call lists.  Domains, offsets and limits are opaque: a search may    *)
(* answer any subset of the existing records.                              *)
(* It has one table, res.partner; a call on another model faults.          *)

ServerDatabases == {"prod"}
ServerPassword == "secret"
ServerUids == {PyInt(2)}
ServerModels == {"res.partner"}

Result(v) == [kind |-> "result", val |-> v]
Faulted(s) == [kind |-> "fault", val |-> Fault(s)]

Authenticate(db, user, pw) ==
    IF db \notin ServerDatabases THEN {Faulted("database does not exist")}
    ELSE IF pw = ServerPassword THEN {Result(u) : u \in ServerUids}
    ELSE {Result(PyBool(FALSE))}

Absent == PyNone

EmptyStore == [i \in Ids |-> Absent]

Existing(st) == {i \in Ids : st[i] # Absent}

RECURSIVE SortedSeq(_)
SortedSeq(S) ==
    IF S = {} THEN <<>>
    ELSE LET m == CHOOSE x \in S : \A y \in S : x <= y
         IN <<m>> \o SortedSeq(S \ {m})

Rec(st, i) == PyDict([id |-> PyInt(i), name |-> st[i].v.name])

IsIdList(x) == x.t = "list" /\ \A k \in 1..Len(x.v) : x.v[k].t = "int" /\ x.v[k].v \in Ids

ListedIds(x) == {x.v[k].v : k \in 1..Len(x.v)}

\* the identifier sets a search may answer: the domain, the offset and the
\* limit are the server's to interpret, so any set of existing records
Matches(st, kw) == SUBSET Existing(st)

Answers(st, c) ==
    LET p == c.args.v
    IN CASE c.model \notin ServerModels -> {}
         [] c.method = "create" /\ c.args.t = "list" /\ Len(p) = 1 /\ p[1].t = "dict" ->
              {[res |-> Result(PyInt(i)), st |-> [st EXCEPT ![i] = p[1]]] :
                  i \in Ids \ Existing(st)}
         [] c.method = "write" /\ c.args.t = "list" /\ Len(p) = 2 /\ IsIdList(p[1])
                /\ p[2].t = "dict" /\ ListedIds(p[1]) \subseteq Existing(st) ->
              {[res |-> Result(PyBool(TRUE)),
                st |-> [i \in Ids |-> IF i \in ListedIds(p[1]) THEN p[2] ELSE st[i]]]}
         [] c.method = "unlink" /\ c.args.t = "list" /\ Len(p) = 1 /\ IsIdList(p[1]) ->
              {[res |-> Result(PyBool(TRUE)),
                st |-> [i \in Ids |-> IF i \in ListedIds(p[1]) THEN Absent ELSE st[i]]]}
         [] c.method = "read" /\ c.args.t = "list" /\ Len(p) = 1 /\ IsIdList(p[1])
                /\ ListedIds(p[1]) \subseteq Existing(st) ->
              {[res |-> Result(PyList([k \in 1..Len(p[1].v) |-> Rec(st, p[1].v[k].v)])),
                st |-> st]}
         [] c.method = "search" /\ c.args.t = "list" /\ Len(p) = 1 ->
              {[res |-> Result(PyList([k \in 1..Cardinality(T) |-> PyInt(SortedSeq(T)[k])])),
                st |-> st] : T \in Matches(st, c.kw)}
         [] c.method = "search_count" /\ c.args.t = "list" /\ Len(p) = 1 ->
              {[res |-> Result(PyInt(Cardinality(T))), st |-> st] : T \in Matches(st, c.kw)}
         [] c.method = "search_read" /\ c.args.t = "list" /\ Len(p) = 1 ->
              {[res |-> Result(PyList([k \in 1..Cardinality(T) |-> Rec(st, SortedSeq(T)[k])])),
                st |-> st] : T \in Matches(st, c.kw)}
         [] c.method = "fields_get" /\ c.args.t = "list" /\ Len(p) = 0 ->
              {[res |-> Result(PyDict([name |-> IF c.kw.t = "dict" THEN c.kw.v.attributes
                                                ELSE PyStr("all attributes")])),
                st |-> st]}
         [] c.method = "load" /\ c.args.t = "list" /\ Len(p) = 2 ->
              {[res |-> Result(PyDict([ids |-> PyBool(FALSE)])), st |-> st]}
         [] OTHER -> {}

ServerExec(st, c) ==
    IF c.password = ServerPassword /\ c.uid \in ServerUids
    THEN Answers(st, c) \cup {[res |-> Faulted("application error"), st |-> st]}
    ELSE {[res |-> Faulted("Access Denied"), st |-> st]}

-----------------------------------------------------------------------------
(* The client.  Every operation builds one envelope and relays it.         *)

\* mutant: the user name is sent where the password belongs
EnvelopeUsername(model, method, args, kw) ==
    [database |-> database, uid |-> uid, password |-> username,
     model |-> model, method |-> method, args |-> args, kw |-> kw]

\* self.models.execute_kw(self.database, self.uid, self.password, model, method, args[, kwargs])
Envelope(model, method, args, kw) ==
    [database |-> database, uid |-> uid, password |-> password,
     model |-> model, method |-> method, args |-> args, kw |-> kw]

Return(v) == [kind |-> "return", val |-> v, logs |-> <<>>]
Raise(e) == [kind |-> "raise", val |-> e, logs |-> <<>>]

\* template.format(*args): one replacement field per label, filled from args
\* by position; an index past the end of args raises IndexError
Format(labels, args) ==
    IF Len(args) < Len(labels) THEN [ok |-> FALSE, msg |-> <<>>]
    ELSE [ok |-> TRUE,
          msg |-> [k \in 1..Len(labels) |-> [label |-> labels[k], text |-> Str(args[k])]]]

\* logger.error(template.format(*args)) as the last statement of an except
\* clause: the entry is emitted and the method falls off its end (None),
\* unless formatting raised
LogError(labels, args) ==
    LET f == Format(labels, args)
    IN IF f.ok THEN [kind |-> "return", val |-> PyNone, logs |-> <<f.msg>>]
       ELSE Raise(IndexError)

\* return <remote call> outside any try: a Fault leaves the method as raised
Passthrough(r) == IF r.kind = "fault" THEN Raise(r.val) ELSE Return(r.val)

CreateCall(model, values) == Envelope(model, "create", PyList(<<values>>), NoKw)

CreateOutcome(r, model, values) ==
    IF r.kind = "fault"
    THEN LogError(<<"err", "model", "values">>, <<r.val, PyStr(model), values>>)
    ELSE Return(r.val)

\* mutant: header and values are sent without their enclosing lists
LoadCallFlat(model, header, values) ==
    [database |-> database, uid |-> uid, password |-> password, model |-> model,
     method |-> "load", args |-> PyList(<<header, values>>), kw |-> NoKw]

LoadCall(model, header, values) ==
    Envelope(model, "load", PyList(<<PyList(<<header>>), PyList(<<values>>)>>), NoKw)

LoadOutcome(r, model, header, values) ==
    IF r.kind = "fault"
    THEN LogError(<<"err", "model", "values">>, <<r.val, PyStr(model), values>>)
    ELSE Return(r.val)

CountCall(model, domain, limit) ==
    Envelope(model, "search_count", domain, PyDict([limit |-> PyInt(limit)]))

CountOutcome(r) == Passthrough(r)

\* mutant: the attributes keyword is sent even when attributes is empty
FieldsGetCallAlwaysKw(model, attributes) ==
    [database |-> database, uid |-> uid, password |-> password, model |-> model,
     method |-> "fields_get", args |-> PyList(<<>>),
     kw |-> PyDict([attributes |-> attributes])]

FieldsGetCall(model, attributes) ==
    IF ~Truthy(attributes)
    THEN Envelope(model, "fields_get", PyList(<<>>), NoKw)
    ELSE Envelope(model, "fields_get", PyList(<<>>), PyDict([attributes |-> attributes]))

FieldsGetOutcome(r) == Passthrough(r)

SearchLimit == 1
NotFound == -1

GetIdCall(model, domain) ==
    Envelope(model, "search", domain, PyDict([limit |-> PyInt(SearchLimit)]))

\* mutant: a Fault is turned into the sentinel
GetIdOutcomeSentinel(r) ==
    IF r.kind = "fault" \/ ~Truthy(r.val)
    THEN [kind |-> "return", val |-> PyInt(-1), logs |-> <<>>]
    ELSE [kind |-> "return", val |-> r.val.v[1], logs |-> <<>>]

\* mutant: the answer is returned without taking its first element
GetIdOutcomeList(r) ==
    IF r.kind = "fault" THEN [kind |-> "raise", val |-> r.val, logs |-> <<>>]
    ELSE IF Truthy(r.val) THEN [kind |-> "return", val |-> r.val, logs |-> <<>>]
    ELSE [kind |-> "return", val |-> PyInt(-1), logs |-> <<>>]

\* return id[0] if id else -1
GetIdOutcome(r) ==
    IF r.kind = "fault" THEN Raise(r.val)
    ELSE IF Truthy(r.val) THEN Return(r.val.v[1]) ELSE Return(PyInt(NotFound))

\* mutant: the domain is wrapped in one more list
SearchCallWrapped(model, domain) ==
    [database |-> database, uid |-> uid, password |-> password, model |-> model,
     method |-> "search", args |-> PyList(<<domain>>), kw |-> NoKw]

SearchCall(model, domain) == Envelope(model, "search", domain, NoKw)

SearchOutcome(r) == Passthrough(r)

ReadCall(model, ids, fields) ==
    Envelope(model, "read", PyList(<<ids>>), PyDict([fields |-> fields]))

ReadOutcome(r) == Passthrough(r)

SearchReadCall(model, domain, offset, limit, fields) ==
    Envelope(model, "search_read", domain,
             PyDict([offset |-> PyInt(offset), limit |-> PyInt(limit), fields |-> fields]))

\* the template has three replacement fields and format gets two arguments
SearchReadOutcome(r, model) ==
    IF r.kind = "fault"
    THEN LogError(<<"err", "model", "values">>, <<r.val, PyStr(model)>>)
    ELSE Return(r.val)

\* mutant: the identifier is sent without its enclosing list
WriteCallBareId(model, id, values) ==
    [database |-> database, uid |-> uid, password |-> password, model |-> model,
     method |-> "write", args |-> PyList(<<PyInt(id), values>>), kw |-> NoKw]

\* mutant: write has no try/except, the Fault leaves it as raised
WriteOutcomeReraise(r, model, id, values) ==
    IF r.kind = "fault" THEN [kind |-> "raise", val |-> r.val, logs |-> <<>>]
    ELSE [kind |-> "return", val |-> r.val, logs |-> <<>>]

WriteCall(model, id, values) ==
    Envelope(model, "write", PyList(<<PyList(<<PyInt(id)>>), values>>), NoKw)

WriteOutcome(r, model, id, values) ==
    IF r.kind = "fault"
    THEN LogError(<<"err", "model", "id", "values">>, <<r.val, PyStr(model), PyInt(id), values>>)
    ELSE Return(r.val)

UnlinkCall(model, ids) == Envelope(model, "unlink", PyList(<<ids>>), NoKw)

UnlinkOutcome(r) == Passthrough(r)

ExecuteCall(model, method, args) == Envelope(model, method, args, NoKw)

ExecuteOutcome(r) == Passthrough(r)

ExecuteKwCall(model, method, args, kwargs) == Envelope(model, method, args, kwargs)

ExecuteKwOutcome(r) == Passthrough(r)

-----------------------------------------------------------------------------
(* State machine *)

NoOutcome == [kind |-> "none", val |-> PyNone]

Init ==
    /\ pc = "new"
    /\ config = [database |-> "", username |-> "", password |-> ""]
    /\ authResult = NoOutcome
    /\ database = ""
    /\ username = ""
    /\ password = ""
    /\ uid = PyNone
    /\ authCalls = 0
    /\ store = EmptyStore
    /\ op = "none"
    /\ inp = [model |-> ""]
    /\ calls = <<>>
    /\ resp = NoOutcome
    /\ logs = <<>>
    /\ outcome = NoOutcome

\* OdooConn(config): the fields are assigned, then common.authenticate is
\* called once and its answer stored as self.uid; a Fault leaves __init__
\* as raised and no connection object exists
Construct ==
    /\ pc = "new"
    /\ \E cfg \in Configs :
         \E a \in Authenticate(cfg.database, cfg.username, cfg.password) :
            /\ config' = cfg
            /\ database' = cfg.database
            /\ username' = cfg.username
            /\ password' = cfg.password
            /\ authCalls' = authCalls + 1
            /\ authResult' = a
            /\ IF a.kind = "fault"
               THEN /\ pc' = "failed"
                    /\ uid' = uid
                    /\ outcome' = [kind |-> "raise", val |-> a.val]
               ELSE /\ pc' = "ready"
                    /\ uid' = a.val
                    /\ outcome' = [kind |-> "return", val |-> PyNone]
    /\ op' = "__init__"
    /\ UNCHANGED <<store, inp, calls, resp, logs>>

\* one method call: the envelope c is relayed, the server answers s, and
\* the method ends as o
Finish(name, input, c, s, o) ==
    /\ op' = name
    /\ inp' = input
    /\ calls' = <<c>>
    /\ resp' = s.res
    /\ store' = s.st
    /\ logs' = o.logs
    /\ outcome' = [kind |-> o.kind, val |-> o.val]
    /\ UNCHANGED conn

Create ==
    /\ pc = "ready"
    /\ \E model \in Models, values \in Values :
         \E s \in ServerExec(store, CreateCall(model, values)) :
            Finish("create", [model |-> model, values |-> values],
                   CreateCall(model, values), s, CreateOutcome(s.res, model, values))

Load ==
    /\ pc = "ready"
    /\ \E model \in Models, header \in Headers, values \in Rows :
         \E s \in ServerExec(store, LoadCall(model, header, values)) :
            Finish("load", [model |-> model, header |-> header, values |-> values],
                   LoadCall(model, header, values), s,
                   LoadOutcome(s.res, model, header, values))

Count ==
    /\ pc = "ready"
    /\ \E model \in Models, domain \in Domains, limit \in Limits :
         \E s \in ServerExec(store, CountCall(model, domain, limit)) :
            Finish("count", [model |-> model, domain |-> domain, limit |-> limit],
                   CountCall(model, domain, limit), s, CountOutcome(s.res))

FieldsGet ==
    /\ pc = "ready"
    /\ \E model \in Models, attributes \in Attributes :
         \E s \in ServerExec(store, FieldsGetCall(model, attributes)) :
            Finish("fields_get", [model |-> model, attributes |-> attributes],
                   FieldsGetCall(model, attributes), s, FieldsGetOutcome(s.res))

GetId ==
    /\ pc = "ready"
    /\ \E model \in Models, domain \in Domains :
         \E s \in ServerExec(store, GetIdCall(model, domain)) :
            Finish("get_id", [model |-> model, domain |-> domain],
                   GetIdCall(model, domain), s, GetIdOutcome(s.res))

Search ==
    /\ pc = "ready"
    /\ \E model \in Models, domain \in Domains :
         \E s \in ServerExec(store, SearchCall(model, domain)) :
            Finish("search", [model |-> model, domain |-> domain],
                   SearchCall(model, domain), s, SearchOutcome(s.res))

Read ==
    /\ pc = "ready"
    /\ \E model \in Models, ids \in IdLists, fields \in Fields :
         \E s \in ServerExec(store, ReadCall(model, ids, fields)) :
            Finish("read", [model |-> model, ids |-> ids, fields |-> fields],
                   ReadCall(model, ids, fields), s, ReadOutcome(s.res))

SearchRead ==
    /\ pc = "ready"
    /\ \E model \in Models, domain \in Domains, offset \in Offsets, limit \in Offsets,
          fields \in Fields :
         \E s \in ServerExec(store, SearchReadCall(model, domain, offset, limit, fields)) :
            Finish("search_read",
                   [model |-> model, domain |-> domain, offset |-> offset,
                    limit |-> limit, fields |-> fields],
                   SearchReadCall(model, domain, offset, limit, fields), s,
                   SearchReadOutcome(s.res, model))

Write ==
    /\ pc = "ready"
    /\ \E model \in Models, id \in Ids, values \in Values :
         \E s \in ServerExec(store, WriteCall(model, id, values)) :
            Finish("write", [model |-> model, id |-> id, values |-> values],
                   WriteCall(model, id, values), s, WriteOutcome(s.res, model, id, values))

Unlink ==
    /\ pc = "ready"
    /\ \E model \in Models, ids \in IdLists :
         \E s \in ServerExec(store, UnlinkCall(model, ids)) :
            Finish("unlink", [model |-> model, ids |-> ids],
                   UnlinkCall(model, ids), s, UnlinkOutcome(s.res))

\* what callers hand to the generic escape hatches
GenericMethods == {"search", "unlink"}
GenericArgs == {PyList(<<PyList(<<>>)>>)} \cup {PyList(<<PyList(<<PyInt(i)>>)>>) : i \in Ids}
GenericKwargs == {PyDict([limit |-> PyInt(MaxLimit)])}

Execute ==
    /\ pc = "ready"
    /\ \E model \in Models, method \in GenericMethods, args \in GenericArgs :
         \E s \in ServerExec(store, ExecuteCall(model, method, args)) :
            Finish("execute", [model |-> model, method |-> method, args |-> args],
                   ExecuteCall(model, method, args), s, ExecuteOutcome(s.res))

ExecuteKw ==
    /\ pc = "ready"
    /\ \E model \in Models, method \in GenericMethods, args \in GenericArgs,
          kwargs \in GenericKwargs :
         \E s \in ServerExec(store, ExecuteKwCall(model, method, args, kwargs)) :
            Finish("execute_kw",
                   [model |-> model, method |-> method, args |-> args, kwargs |-> kwargs],
                   ExecuteKwCall(model, method, args, kwargs), s, ExecuteKwOutcome(s.res))

Next ==
    \/ Construct
    \/ Create
    \/ Load
    \/ Count
    \/ FieldsGet
    \/ GetId
    \/ Search
    \/ Read
    \/ SearchRead
    \/ Write
    \/ Unlink
    \/ Execute
    \/ ExecuteKw

Spec == Init /\ [][Next]_vars

-----------------------------------------------------------------------------
(* Properties *)

Returned(v) == [kind |-> "return", val |-> v]
Raised(e) == [kind |-> "raise", val |-> e]

\* the log entry carries the text of x in one of its replacement fields
Carries(entry, x) == \E k \in 1..Len(entry) : entry[k].text = Str(x)

Swallowing == {"create", "load", "write"}

Propagating == {"count", "fields_get", "get_id", "search", "read", "unlink",
                "execute", "execute_kw"}

\* the arguments the caller passed after the model
CallerArgs ==
    CASE op = "create" -> <<inp.values>>
      [] op = "load" -> <<inp.header, inp.values>>
      [] op = "write" -> <<PyInt(inp.id), inp.values>>

\* the arguments the except clause hands to format after err and model
LoggedArgs ==
    CASE op = "create" -> <<inp.values>>
      [] op = "load" -> <<inp.values>>
      [] op = "write" -> <<PyInt(inp.id), inp.values>>

SwallowsWith(args) ==
    /\ Len(calls) = 1
    /\ resp.kind = "fault" =>
         /\ outcome = Returned(PyNone)
         /\ Len(logs) = 1
         /\ Carries(logs[1], resp.val)
         /\ Carries(logs[1], PyStr(inp.model))
         /\ \A k \in 1..Len(args) : Carries(logs[1], args[k])
    /\ resp.kind = "result" => outcome = Returned(resp.val)

\* C1 as stated: create, load and write make one remote call; on a Fault
\* they log one entry carrying the fault, the model and every argument of
\* the call, and return None; otherwise they return the remote result.
C1_LogsEveryArgument == op \in Swallowing => SwallowsWith(CallerArgs)

\* C1 amended: the entry carries the fault, the model and the values
\* argument (for write also the identifier); load's header is not in it.
C1_SwallowsFault ==
    op \in Swallowing =>
        /\ SwallowsWith(LoggedArgs)
        /\ op = "load" /\ resp.kind = "fault" => ~Carries(logs[1], inp.header)

C1_Witness ==
    /\ op = "load"
    /\ resp.kind = "fault"
    /\ outcome = Returned(PyNone)
    /\ Len(logs) = 1

\* C2: when search_read's remote call faults, search_read logs the fault
\* with the model and returns None; no exception leaves it.
C2_SearchReadSwallowsFault ==
    op = "search_read" /\ resp.kind = "fault" =>
        /\ outcome = Returned(PyNone)
        /\ Len(logs) = 1
        /\ Carries(logs[1], resp.val)
        /\ Carries(logs[1], PyStr(inp.model))

\* C3: count, fields_get, get_id, search, read, unlink, execute and
\* execute_kw raise the remote Fault itself to the caller, after one remote
\* call, without logging and without turning it into a return value.
C3_FaultPropagates ==
    op \in Propagating /\ resp.kind = "fault" =>
        /\ outcome = Raised(resp.val)
        /\ logs = <<>>
        /\ Len(calls) = 1

C3_Witness ==
    /\ op = "get_id"
    /\ resp.kind = "fault"
    /\ outcome.kind = "raise"

\* C4: get_id makes one remote search with the caller's domain and
\* {limit: 1}; an empty answer gives -1, a non-empty one its first element,
\* and the value returned is never a list.
C4_GetId ==
    op = "get_id" =>
        /\ Len(calls) = 1
        /\ calls[1].method = "search"
        /\ calls[1].args = inp.domain
        /\ calls[1].kw = PyDict([limit |-> PyInt(1)])
        /\ resp.kind = "result" =>
             /\ resp.val.v = <<>> => outcome = Returned(PyInt(-1))
             /\ resp.val.v # <<>> =>
                  /\ outcome = Returned(resp.val.v[1])
                  /\ outcome.val # PyInt(-1)
             /\ outcome.val.t # "list"

C4_Witness ==
    /\ op = "get_id"
    /\ resp.kind = "result"
    /\ resp.val.v # <<>>
    /\ outcome = Returned(resp.val.v[1])

C4_WitnessNone ==
    /\ op = "get_id"
    /\ resp.kind = "result"
    /\ resp.val.v = <<>>
    /\ outcome = Returned(PyInt(-1))

\* C5: authenticate is called at most once, and a connection whose
\* authentication answered a falsy identifier relays no remote call.
C5_AuthFailureIsFatal ==
    /\ authCalls <= 1
    /\ pc = "ready" /\ ~Truthy(authResult.val) => calls = <<>>

\* C6: load sends the positional arguments [[header], [values]], header and
\* values unmodified, to the remote method load, with no keyword arguments.
C6_LoadShape ==
    op = "load" =>
        /\ Len(calls) = 1
        /\ calls[1].method = "load"
        /\ calls[1].args = PyList(<<PyList(<<inp.header>>), PyList(<<inp.values>>)>>)
        /\ calls[1].kw = NoKw

C6_Witness ==
    /\ op = "load"
    /\ resp.kind = "result"
    /\ Len(calls[1].args.v) = 2

\* what search_read sends as its positional arguments for the domain d
SearchReadSends(d) == SearchReadCall(inp.model, d, 0, 0, PyList(<<>>)).args

DomainOps == {"count", "get_id", "search"}

\* C7 as stated: what count, get_id and search send for a domain d is what
\* search_read sends for d wrapped in one more list.
C7_ExtraLayer ==
    op \in DomainOps => calls[1].args = PyList(<<SearchReadSends(inp.domain)>>)

\* C7 amended: count, get_id, search and search_read all send the domain d
\* itself as the positional arguments, with no layer added.
C7_SameDomainArgument ==
    /\ op \in DomainOps =>
         /\ calls[1].args = SearchReadSends(inp.domain)
         /\ calls[1].args = inp.domain
    /\ op = "search_read" => calls[1].args = inp.domain

C7_Witness ==
    /\ op = "search"
    /\ resp.kind = "result"
    /\ calls[1].args = inp.domain
    /\ Len(inp.domain.v[1].v) > 0

\* C8: fields_get sends fields_get with an empty positional list; with a
\* falsy attributes argument no keyword arguments at all, otherwise
\* {attributes: attributes}; it returns the remote result unchanged.
C8_FieldsGet ==
    op = "fields_get" =>
        /\ Len(calls) = 1
        /\ calls[1].method = "fields_get"
        /\ calls[1].args = PyList(<<>>)
        /\ inp.attributes \in {PyNone, PyList(<<>>)} => calls[1].kw = NoKw
        /\ inp.attributes \notin {PyNone, PyList(<<>>)} =>
             calls[1].kw = PyDict([attributes |-> inp.attributes])
        /\ resp.kind = "result" => outcome = Returned(resp.val)

C8_Witness ==
    /\ op = "fields_get"
    /\ inp.attributes = PyList(<<>>)
    /\ calls[1].kw = NoKw
    /\ resp.kind = "result"

C8_WitnessAttributes ==
    /\ op = "fields_get"
    /\ inp.attributes # PyList(<<>>)
    /\ calls[1].kw # NoKw
    /\ resp.kind = "result"

WriteStep ==
    op' = "write" =>
        /\ calls'[1].args = PyList(<<PyList(<<PyInt(inp'.id)>>), inp'.values>>)
        /\ resp'.kind = "result" =>
             /\ store'[inp'.id] = inp'.values
             /\ \A j \in Ids \ {inp'.id} : store'[j] = store[j]

ReadAfterWriteStep ==
    /\ op = "write"
    /\ resp.kind = "result"
    /\ op' = "read"
    /\ inp'.model = inp.model
    /\ inp'.ids = PyList(<<PyInt(inp.id)>>)
    /\ resp'.kind = "result"
    => outcome' = Returned(PyList(<<PyDict([id |-> PyInt(inp.id),
                                           name |-> inp.values.v.name])>>))

\* C9: write sends [[id], values]; when it succeeds the server holds the
\* new values for id and every other record is as before, and a read of id
\* that follows returns the record with the new values.
C9_WriteThenRead == [][WriteStep /\ ReadAfterWriteStep]_vars

C9_Witness ==
    /\ op = "write"
    /\ resp.kind = "result"
    /\ store[inp.id] = inp.values
    /\ \E j \in Ids \ {inp.id} : store[j] # Absent /\ store[j] # inp.values

\* C10: once constructed, database, password and session identifier are
\* the ones set at construction, and every remote call carries them and
\* the caller's model.
C10_Envelope ==
    pc = "ready" =>
        /\ database = config.database
        /\ password = config.password
        /\ uid = authResult.val
        /\ \A k \in 1..Len(calls) :
             /\ calls[k].database = config.database
             /\ calls[k].uid = authResult.val
             /\ calls[k].password = config.password
             /\ calls[k].model = inp.model

C10_Witness ==
    /\ pc = "ready"
    /\ op = "write"
    /\ resp.kind = "fault"
    /\ Truthy(uid)
    /\ Len(calls) = 1
    /\ calls[1].model = inp.model

====
